---- MODULE Spec2Model ----
(***************************************************************************)
(* A model of SmartEntity (src/src/index.ts): the schema compiler          *)
(* (getJsonSchema / buildProperties), the validating deserializer          *)
(* (fromJSON), the masking serializer (toJSON / processValue) and the      *)
(* clone / validate facade, together with the entity classes the           *)
(* repository's tests declare.                                             *)
(*                                                                         *)
(* JavaScript values are tagged records.  Primitives carry their payload   *)
(* in a field named after their type, so that two values of different      *)
(* types never share a record domain.  Arrays, plain objects and entity    *)
(* instances live in a heap and are held by reference (Ref), which is what *)
(* makes aliasing, mutation and "deep copy" statable.  The transient trees *)
(* that toJSON builds and JSON.parse returns are plain nested values.      *)
(***************************************************************************)
EXTENDS Integers, Sequences, FiniteSets, TLC

VARIABLES
  heap,   \* the cells allocated so far
  orig,   \* the entity the calling code constructed
  copy,   \* the instance clone or fromJSON returned last, 0 when none
  source, \* the entity that copy is the clone of, 0 when none
  last,   \* the last call: its arguments and its outcome
  steps   \* how many calls and changes were made

vars == <<heap, orig, copy, source, last, steps>>

----------------------------------------------------------------------------
(* Bounds of the model *)

\* how many operations one behaviour performs
MaxSteps == 3

----------------------------------------------------------------------------
(* JavaScript values *)

Undef == [t |-> "undefined"]
Null == [t |-> "null"]
Bool(b) == [t |-> "boolean", b |-> b]
Num(n) == [t |-> "number", n |-> n]
Str(s) == [t |-> "string", s |-> s]
Ref(a) == [t |-> "ref", a |-> a]
\* a transient array / plain object (not on the heap)
Arr(items) == [t |-> "array", items |-> items]
Obj(keys, vals) == [t |-> "object", keys |-> keys, vals |-> vals]
EmptyObj == Obj(<<>>, <<>>)

IsPrimitive(v) == v.t \in {"undefined", "null", "boolean", "number", "string"}

\* index of key k in the key list ks, 0 when absent
IndexOf(ks, k, i) ==
  LET at == {j \in i..Len(ks) : ks[j] = k}
  IN IF at = {} THEN 0 ELSE CHOOSE j \in at : \A n \in at : j <= n

\* `k in o`
HasKey(o, k) == IndexOf(o.keys, k, 1) # 0

\* o[k]: undefined when o has no property k
Get(o, k) ==
  LET i == IndexOf(o.keys, k, 1)
  IN IF i = 0 THEN Undef ELSE o.vals[i]

\* o[k] = v: an existing property keeps its place, a new one is appended
Put(o, k, v) ==
  LET i == IndexOf(o.keys, k, 1)
  IN IF i = 0
     THEN [o EXCEPT !.keys = Append(@, k), !.vals = Append(@, v)]
     ELSE [o EXCEPT !.vals[i] = v]

\* a ?? b
Coalesce(a, b) == IF a.t \in {"undefined", "null"} THEN b ELSE a

\* the truthiness of a value, as `!data` and `value && ...` read it
Truthy(v) ==
  CASE v.t = "undefined" -> FALSE
    [] v.t = "null" -> FALSE
    [] v.t = "boolean" -> v.b
    [] v.t = "number" -> v.n # 0
    [] v.t = "string" -> v.s # ""
    [] OTHER -> TRUE

----------------------------------------------------------------------------
(* String(value).length and '*'.repeat(n) *)

RECURSIVE NumLen(_)
NumLen(n) ==
  IF n < 0 THEN 1 + NumLen(0 - n)
  ELSE IF n < 10 THEN 1
  ELSE 1 + NumLen(n \div 10)

RECURSIVE Repeat(_, _)
Repeat(s, n) ==
  IF n <= 0 THEN ""
  ELSE IF n = 1 THEN s
  ELSE Repeat(s, n \div 2) \o Repeat(s, n - n \div 2)

\* String(v).length for a value of heap h.  An array joins its elements'
\* strings with commas (null and undefined elements give the empty
\* string, and so does an array that is being joined already); a plain
\* object or an entity gives "[object Object]".
RECURSIVE StringLengthIn(_, _, _)
StringLengthIn(h, v, joining) ==
  CASE v.t = "undefined" -> 9
    [] v.t = "null" -> 4
    [] v.t = "boolean" -> IF v.b THEN 4 ELSE 5
    [] v.t = "number" -> NumLen(v.n)
    [] v.t = "string" -> Len(v.s)
    [] v.t = "ref" ->
         IF h[v.a].k = "array"
         THEN IF v.a \in joining THEN 0
              ELSE LET its == h[v.a].items
                       RECURSIVE Sum(_)
                       Sum(i) ==
                         IF i > Len(its) THEN 0
                         ELSE (IF its[i].t \in {"undefined", "null"} THEN 0
                               ELSE StringLengthIn(h, its[i],
                                                   joining \cup {v.a}))
                              + (IF i < Len(its) THEN 1 ELSE 0) + Sum(i + 1)
                   IN Sum(1)
         ELSE 15

StringLength(h, v) == StringLengthIn(h, v, {})

----------------------------------------------------------------------------
(* JSON text.  A text is a sequence of tokens: punctuation, the white      *)
(* space that pretty printing inserts, and literals.                       *)

Tok(c) == [k |-> c]
Lit(v) == [k |-> "lit", v |-> v]
Indent(n) == [k |-> "indent", n |-> n]

IsWhite(tk) == tk.k \in {"nl", "sp", "indent"}

\* parts[lo] \o sep \o ... \o sep \o parts[hi], for a sequence of token
\* sequences (halved, to keep the evaluation shallow)
RECURSIVE JoinRange(_, _, _, _)
JoinRange(parts, sep, lo, hi) ==
  IF lo > hi THEN <<>>
  ELSE IF lo = hi THEN parts[lo]
  ELSE LET mid == (lo + hi) \div 2
       IN JoinRange(parts, sep, lo, mid) \o sep \o JoinRange(parts, sep, mid + 1, hi)

Join(parts, sep) == JoinRange(parts, sep, 1, Len(parts))

\* the indices of the properties JSON.stringify writes: it leaves out the
\* properties whose value is undefined
Defined(vals) ==
  SelectSeq([i \in 1..Len(vals) |-> i], LAMBDA i : vals[i].t # "undefined")

\* JSON.stringify(v) and JSON.stringify(v, null, 2) of a transient tree, d
\* being the nesting depth
RECURSIVE Stringify(_, _, _)
Stringify(v, pretty, d) ==
  LET open == IF pretty THEN <<Tok("nl"), Indent(2 * (d + 1))>> ELSE <<>>
      close == IF pretty
               THEN IF d = 0 THEN <<Tok("nl")>> ELSE <<Tok("nl"), Indent(2 * d)>>
               ELSE <<>>
      comma == <<Tok(",")>> \o open
      colon == IF pretty THEN <<Tok(":"), Tok("sp")>> ELSE <<Tok(":")>>
  IN CASE v.t = "array" ->
            IF v.items = <<>> THEN <<Tok("["), Tok("]")>>
            ELSE <<Tok("[")>> \o open
                 \o Join([i \in 1..Len(v.items) |->
                            IF v.items[i].t = "undefined" THEN <<Lit(Null)>>
                            ELSE Stringify(v.items[i], pretty, d + 1)], comma)
                 \o close \o <<Tok("]")>>
       [] v.t = "object" ->
            LET ix == Defined(v.vals)
            IN IF ix = <<>> THEN <<Tok("{"), Tok("}")>>
               ELSE <<Tok("{")>> \o open
                    \o Join([j \in 1..Len(ix) |->
                               <<Lit(Str(v.keys[ix[j]]))>> \o colon
                               \o Stringify(v.vals[ix[j]], pretty, d + 1)], comma)
                    \o close \o <<Tok("}")>>
       [] OTHER -> <<Lit(v)>>

\* the tokens of a text without its white space
Lex(ts) == SelectSeq(ts, LAMBDA tk : ~IsWhite(tk))

NoParse == [ok |-> FALSE, v |-> Undef, i |-> 0]

\* JSON.parse, by recursive descent: the value that starts at token i and
\* the position after it
RECURSIVE ParseValue(_, _)
RECURSIVE ParseElements(_, _, _)
RECURSIVE ParseMembers(_, _, _)
ParseValue(ts, i) ==
  IF i > Len(ts) THEN NoParse
  ELSE CASE ts[i].k = "lit" -> [ok |-> TRUE, v |-> ts[i].v, i |-> i + 1]
         [] ts[i].k = "[" ->
              IF i + 1 <= Len(ts) /\ ts[i + 1].k = "]"
              THEN [ok |-> TRUE, v |-> Arr(<<>>), i |-> i + 2]
              ELSE ParseElements(ts, i + 1, <<>>)
         [] ts[i].k = "{" ->
              IF i + 1 <= Len(ts) /\ ts[i + 1].k = "}"
              THEN [ok |-> TRUE, v |-> EmptyObj, i |-> i + 2]
              ELSE ParseMembers(ts, i + 1, EmptyObj)
         [] OTHER -> NoParse

ParseElements(ts, i, acc) ==
  LET r == ParseValue(ts, i)
  IN IF ~r.ok \/ r.i > Len(ts) THEN NoParse
     ELSE IF ts[r.i].k = "," THEN ParseElements(ts, r.i + 1, Append(acc, r.v))
     ELSE IF ts[r.i].k = "]"
          THEN [ok |-> TRUE, v |-> Arr(Append(acc, r.v)), i |-> r.i + 1]
     ELSE NoParse

ParseMembers(ts, i, acc) ==
  IF i + 1 > Len(ts) THEN NoParse
  ELSE IF ~(ts[i].k = "lit" /\ ts[i].v.t = "string" /\ ts[i + 1].k = ":")
       THEN NoParse
  ELSE LET r == ParseValue(ts, i + 2)
           o == Put(acc, ts[i].v.s, r.v)
       IN IF ~r.ok \/ r.i > Len(ts) THEN NoParse
          ELSE IF ts[r.i].k = "," THEN ParseMembers(ts, r.i + 1, o)
          ELSE IF ts[r.i].k = "}" THEN [ok |-> TRUE, v |-> o, i |-> r.i + 1]
          ELSE NoParse

\* whether the parse r consumed all the n tokens of a text
Complete(r, n) == r.ok /\ r.i = n + 1

\* JSON.parse of the tokens ts, white space removed
Parse(ts) == ParseValue(ts, 1)

\* whether JSON.parse accepts the text
ValidTokens(ts) == Complete(Parse(ts), Len(ts))
ValidJson(json) == ValidTokens(Lex(json))

\* JSON.parse(json), for a text it accepts
JsonParse(json) == Parse(Lex(json)).v

\* the value of the parse r of n tokens, null when JSON.parse throws
ValueOrNull(r, n) == IF Complete(r, n) THEN r.v ELSE Null
ParseOrNull(ts) == ValueOrNull(Parse(ts), Len(ts))

\* SmartEntity.safeJsonParse: null when JSON.parse throws
safeJsonParse(json) == ParseOrNull(Lex(json))

\* SmartEntity.safeJsonStringify.  JSON.stringify throws on no tree that
\* processValue builds: such a tree is finite and holds no BigInt.
safeJsonStringify(obj, pretty) == Stringify(obj, pretty, 0)

----------------------------------------------------------------------------
(* The schema compiler *)

\* the primitive property that buildProperties copies from a hint: the five
\* constraints are always assigned, undefined when the hint sets none
PrimitiveProperty(hint) ==
  Obj(<<"type", "nullable", "minLength", "maxLength", "minimum", "maximum",
        "pattern">>,
      <<Get(hint, "type"), Coalesce(Get(hint, "nullable"), Bool(FALSE)),
        Get(hint, "minLength"), Get(hint, "maxLength"), Get(hint, "minimum"),
        Get(hint, "maximum"), Get(hint, "pattern")>>)

\* the property of a compiler that writes the hint's nullable flag into a
\* nested schema
PropertyOfNullable(hint) ==
  IF Get(hint, "type") = Str("array") /\ HasKey(hint, "items")
     /\ Truthy(Get(hint, "items"))
  THEN Obj(<<"type", "items">>,
           <<Str("array"),
             IF HasKey(Get(hint, "items"), "schema")
             THEN Get(Get(hint, "items"), "schema")
             ELSE PrimitiveProperty(Get(hint, "items"))>>)
  ELSE IF Get(hint, "type") = Str("object") /\ HasKey(hint, "schema")
          /\ Truthy(Get(hint, "schema"))
       THEN Put(Get(hint, "schema"), "nullable",
                Coalesce(Get(hint, "nullable"), Bool(FALSE)))
  ELSE PrimitiveProperty(hint)

\* the property buildProperties emits for one hint
PropertyOf(hint) ==
  IF Get(hint, "type") = Str("array") /\ HasKey(hint, "items")
     /\ Truthy(Get(hint, "items"))
  THEN Obj(<<"type", "items">>,
           <<Str("array"),
             IF HasKey(Get(hint, "items"), "schema")
             THEN Get(Get(hint, "items"), "schema")
             ELSE PrimitiveProperty(Get(hint, "items"))>>)
  ELSE IF Get(hint, "type") = Str("object") /\ HasKey(hint, "schema")
          /\ Truthy(Get(hint, "schema"))
       THEN Get(hint, "schema")
  ELSE PrimitiveProperty(hint)

\* SmartEntity.buildProperties: one property per key of the hints, in the
\* hints' key order
buildProperties(schemaHints) ==
  Obj(schemaHints.keys,
      [i \in 1..Len(schemaHints.keys) |-> PropertyOf(schemaHints.vals[i])])

\* a list of names as an array of strings
Names(ks) == Arr([i \in 1..Len(ks) |-> Str(ks[i])])

\* the schema with every required name dropped: what a compiler that forgot
\* the required list would return
getJsonSchemaNoRequired(class) ==
  Obj(<<"type", "properties", "required", "additionalProperties">>,
      <<Str("object"), buildProperties(class.schemaHints), Names(<<>>),
        Bool(FALSE)>>)

\* SmartEntity.getJsonSchema, for the class it is called on
getJsonSchema(class) ==
  Obj(<<"type", "properties", "required", "additionalProperties">>,
      <<Str("object"), buildProperties(class.schemaHints),
        Names(class.requiredFields), Bool(FALSE)>>)

----------------------------------------------------------------------------
(* The entity classes.  A class is its constructor's parameter properties  *)
(* (names and default values, undefined for an optional parameter) and the *)
(* three declarations SmartEntity asks for.                                *)

Hint1(t) == Obj(<<"type">>, <<Str(t)>>)
Hint2(t, nullable) == Obj(<<"type", "nullable">>, <<Str(t), Bool(nullable)>>)

SubModel ==
  [name |-> "SubModel",
   params |-> <<"hobbies">>,
   defaults |-> <<Arr(<<>>)>>,
   maskableFields |-> <<"hobbies">>,
   requiredFields |-> <<"hobbies">>,
   schemaHints |->
     Obj(<<"hobbies">>,
         <<Obj(<<"type", "items", "nullable">>,
               <<Str("array"), Hint1("string"), Bool(FALSE)>>)>>)]

RootModel ==
  [name |-> "RootModel",
   params |-> <<"id", "description", "isActive", "sub">>,
   defaults |-> <<Num(0), Null, Bool(TRUE), Undef>>,
   maskableFields |-> <<"description">>,
   requiredFields |-> <<"description">>,
   schemaHints |->
     Obj(<<"id", "description", "isActive", "sub">>,
         <<Hint1("number"), Hint2("string", FALSE), Hint1("boolean"),
           Obj(<<"type", "schema", "nullable">>,
               <<Str("object"), getJsonSchema(SubModel), Bool(TRUE)>>)>>)]

NestedModel ==
  [name |-> "NestedModel",
   params |-> <<"field1", "field2">>,
   defaults |-> <<Null, Num(0)>>,
   maskableFields |-> <<"field1">>,
   requiredFields |-> <<"field2">>,
   schemaHints |->
     Obj(<<"field1", "field2">>, <<Hint2("string", TRUE), Hint1("number")>>)]

TestModel ==
  [name |-> "TestModel",
   params |-> <<"nested">>,
   defaults |-> <<Undef>>,
   maskableFields |-> <<"nested">>,
   requiredFields |-> <<>>,
   schemaHints |->
     Obj(<<"nested">>,
         <<Obj(<<"type", "schema", "nullable">>,
               <<Str("object"), getJsonSchema(NestedModel), Bool(TRUE)>>)>>)]

\* an entity that holds plain objects and an array of plain values: "field1"
\* is maskable, so are the plain object "info" and the array "tags"; the
\* plain object "meta" and the array "list" are not
PlainModel ==
  [name |-> "PlainModel",
   params |-> <<"field1", "meta", "info", "tags", "list">>,
   defaults |-> <<Null, Undef, Undef, Undef, Undef>>,
   maskableFields |-> <<"field1", "info", "tags">>,
   requiredFields |-> <<>>,
   schemaHints |->
     Obj(<<"field1", "meta", "info", "tags", "list">>,
         <<Hint2("string", TRUE), Hint1("object"), Hint1("object"),
           Hint1("array"), Hint1("array")>>)]

ClassNames == {"SubModel", "RootModel", "NestedModel", "TestModel", "PlainModel"}

Class(name) ==
  CASE name = "SubModel" -> SubModel
    [] name = "RootModel" -> RootModel
    [] name = "NestedModel" -> NestedModel
    [] name = "TestModel" -> TestModel
    [] name = "PlainModel" -> PlainModel

\* key.startsWith('_'), over the property names of the model
StartsWithUnderscore(key) ==
  key \in {"_maskableFields", "_requiredFields", "_schemaHints"}

----------------------------------------------------------------------------
(* The schema validator that fromJSON compiles with `new Ajv()`: it stops  *)
(* at the first violation.  Within one schema it checks the type, then the *)
(* length and range limits, then required, additionalProperties and the    *)
(* properties in the schema's order.  A keyword whose value is undefined   *)
(* is not there.                                                           *)

Error(path, message) == [instancePath |-> path, message |-> message]

\* whether a parsed value has the JSON Schema type ty
HasType(data, ty) ==
  CASE ty = "string" -> data.t = "string"
    [] ty = "number" -> data.t = "number"
    [] ty = "boolean" -> data.t = "boolean"
    [] ty = "array" -> data.t = "array"
    [] ty = "object" -> data.t = "object"
    [] OTHER -> FALSE

\* the first key of data that the properties do not declare, "" when none
RECURSIVE FirstAdditional(_, _, _)
FirstAdditional(data, props, i) ==
  IF i > Len(data.keys) THEN ""
  ELSE IF ~HasKey(props, data.keys[i]) THEN data.keys[i]
  ELSE FirstAdditional(data, props, i + 1)

\* a required check that finds nothing missing
FirstMissingNone(data, required, i) == ""

\* the first required name that data lacks, "" when none
RECURSIVE FirstMissing(_, _, _)
FirstMissing(data, required, i) ==
  IF i > Len(required.items) THEN ""
  ELSE IF ~HasKey(data, required.items[i].s) THEN required.items[i].s
  ELSE FirstMissing(data, required, i + 1)

\* validate.errors after validate(data): empty when data is valid.  The
\* rule order is that of ajv 8 (package.json asks for ^8.17.1), in which
\* `required` is checked before `additionalProperties`; ajv 6 checks them
\* the other way round and words its messages differently.
RECURSIVE Errors(_, _, _)
Errors(schema, data, path) ==
  LET ty == Get(schema, "type")
      nullable == Get(schema, "nullable") = Bool(TRUE)
      Limit(kw) == Get(schema, kw)
      props == Get(schema, "properties")
      RECURSIVE InProperties(_)
      InProperties(i) ==
        IF i > Len(props.keys) THEN <<>>
        ELSE LET k == props.keys[i]
                 e == IF HasKey(data, k)
                      THEN Errors(props.vals[i], Get(data, k), path \o "/" \o k)
                      ELSE <<>>
             IN IF e # <<>> THEN e ELSE InProperties(i + 1)
      RECURSIVE InItems(_)
      InItems(i) ==
        IF i > Len(data.items) THEN <<>>
        ELSE LET e == Errors(Get(schema, "items"), data.items[i],
                             path \o "/" \o ToString(i - 1))
             IN IF e # <<>> THEN e ELSE InItems(i + 1)
  IN IF data.t = "null" /\ nullable THEN <<>>
     ELSE IF ty.t = "string" /\ ~HasType(data, ty.s)
          THEN <<Error(path, "must be " \o ty.s)>>
     ELSE CASE data.t = "number" ->
                 IF Limit("maximum").t = "number" /\ data.n > Limit("maximum").n
                 THEN <<Error(path, "must be <= " \o ToString(Limit("maximum").n))>>
                 ELSE IF Limit("minimum").t = "number"
                         /\ data.n < Limit("minimum").n
                 THEN <<Error(path, "must be >= " \o ToString(Limit("minimum").n))>>
                 ELSE <<>>
            [] data.t = "string" ->
                 IF Limit("maxLength").t = "number"
                    /\ Len(data.s) > Limit("maxLength").n
                 THEN <<Error(path, "must NOT have more than "
                               \o ToString(Limit("maxLength").n) \o " characters")>>
                 ELSE IF Limit("minLength").t = "number"
                         /\ Len(data.s) < Limit("minLength").n
                 THEN <<Error(path, "must NOT have fewer than "
                               \o ToString(Limit("minLength").n) \o " characters")>>
                 ELSE <<>>
            [] data.t = "array" ->
                 IF Get(schema, "items").t = "object" THEN InItems(1) ELSE <<>>
            [] data.t = "object" ->
                 LET missing == IF Get(schema, "required").t = "array"
                                THEN FirstMissing(data, Get(schema, "required"), 1)
                                ELSE ""
                     extra == IF Get(schema, "additionalProperties") = Bool(FALSE)
                              THEN FirstAdditional(data,
                                     IF props.t = "object" THEN props ELSE EmptyObj, 1)
                              ELSE ""
                 IN IF missing # ""
                    THEN <<Error(path, "must have required property '"
                                  \o missing \o "'")>>
                    ELSE IF extra # ""
                    THEN <<Error(path, "must NOT have additional properties")>>
                    ELSE IF props.t = "object" THEN InProperties(1)
                    ELSE <<>>
            [] OTHER -> <<>>

----------------------------------------------------------------------------
(* The heap.  A cell is an array, a plain object or an entity instance;    *)
(* its address is its index.                                               *)

ArrayCell(items) == [k |-> "array", items |-> items]
ObjectCell(keys, vals) == [k |-> "object", keys |-> keys, vals |-> vals]
EntityCell(cls, keys, vals) ==
  [k |-> "entity", cls |-> cls, keys |-> keys, vals |-> vals]

\* value instanceof SmartEntity
IsEntity(h, v) == v.t = "ref" /\ h[v.a].k = "entity"
\* Array.isArray(value)
IsArray(h, v) == v.t = "ref" /\ h[v.a].k = "array"
\* value && typeof value === 'object' && !Array.isArray(value)
IsObject(h, v) == v.t = "ref" /\ h[v.a].k # "array"

\* how many heap cells a transient tree takes: one for each array and
\* object in it
RECURSIVE Size(_)
RECURSIVE SizeAll(_, _)
Size(v) ==
  IF v.t = "array" THEN 1 + SizeAll(v.items, Len(v.items))
  ELSE IF v.t = "object" THEN 1 + SizeAll(v.vals, Len(v.vals))
  ELSE 0

\* the cells the first n trees of vs take
SizeAll(vs, n) == IF n = 0 THEN 0 ELSE SizeAll(vs, n - 1) + Size(vs[n])

\* the cells of a transient tree, to be appended to a heap of `base` cells:
\* the cells of its elements first, in their order, its own cell last
RECURSIVE CellsOf(_, _)
RECURSIVE ValueAt(_, _)
\* the value that refers to tree v once its cells are appended after base
ValueAt(v, base) ==
  IF v.t \in {"array", "object"} THEN Ref(base + Size(v)) ELSE v

\* the cells of the trees vs, appended one tree after the other after base
CellsOfAll(vs, base) ==
  Join([i \in 1..Len(vs) |-> CellsOf(vs[i], base + SizeAll(vs, i - 1))], <<>>)

\* the values that refer to the trees vs
ValuesAt(vs, base) ==
  [i \in 1..Len(vs) |-> ValueAt(vs[i], base + SizeAll(vs, i - 1))]

CellsOf(v, base) ==
  IF v.t = "array"
  THEN CellsOfAll(v.items, base) \o <<ArrayCell(ValuesAt(v.items, base))>>
  ELSE IF v.t = "object"
  THEN CellsOfAll(v.vals, base) \o <<ObjectCell(v.keys, ValuesAt(v.vals, base))>>
  ELSE <<>>

\* a transient tree put on the heap: every array and object of it becomes a
\* new cell.  Gives the heap after and the value that refers to the tree.
Store(h, v) == [h |-> h \o CellsOf(v, Len(h)), v |-> ValueAt(v, Len(h))]

\* the same for a list of trees
StoreAll(h, vs) ==
  [h |-> h \o CellsOfAll(vs, Len(h)), vs |-> ValuesAt(vs, Len(h))]

\* the instance laid out after its parameter values r were stored: the
\* parameter properties come first, then the three declared fields
Construct(class, r) ==
  [h |-> Append(r.h,
           EntityCell(class.name,
             class.params \o <<"_maskableFields", "_requiredFields", "_schemaHints">>,
             r.vs \o <<Names(class.maskableFields), Names(class.requiredFields),
                       class.schemaHints>>)),
   a |-> Len(r.h) + 1]

\* `new C(...args)`: a parameter left out or passed undefined takes its
\* default.  Gives the heap after and the address of the instance.
New(h, class, args) ==
  Construct(class,
    StoreAll(h, [i \in 1..Len(class.params) |->
                   IF i <= Len(args) /\ args[i].t # "undefined"
                   THEN args[i] ELSE class.defaults[i]]))

\* the keys old with the keys of new it lacks appended, in their order
Merged(old, new) == old \o SelectSeq(new, LAMBDA k : IndexOf(old, k, 1) = 0)

\* the instance this at address a after the values r, stored on the heap,
\* were assigned to it under names
AssignStored(this, a, names, r) ==
  [r.h EXCEPT ![a] =
     [@ EXCEPT !.keys = Merged(this.keys, names),
               !.vals = [i \in 1..Len(Merged(this.keys, names)) |->
                           IF i <= Len(this.keys)
                           THEN IF IndexOf(names, this.keys[i], 1) = 0
                                THEN this.vals[i]
                                ELSE r.vs[IndexOf(names, this.keys[i], 1)]
                           ELSE r.vs[IndexOf(names,
                                       Merged(this.keys, names)[i], 1)]]]]

\* the parsed fields left off the new instance
AssignNothing(h, a, data) == h

\* Object.assign(instance, data): every own property of the parsed object is
\* assigned, in its order, as the plain parsed value; a property the
\* instance has keeps its place, a new one is appended
Assign(h, a, data) ==
  AssignStored(h[a], a, data.keys, StoreAll(h, data.vals))

Includes(names, key) == \E i \in 1..Len(names) : names[i] = key

----------------------------------------------------------------------------
(* The masking serializer *)

\* a mask of eight characters whatever the value
MaskFixed(h, value) == Str("********")

\* the mask of a value: '*'.repeat(String(value).length)
Mask(h, value) == Str(Repeat("*", StringLength(h, value)))

\* the flag handed down with the wrong value: masking on for every plain
\* object
ObjectFlagKept(maskSensitive, maskableFields, key) == maskSensitive

\* the maskSensitive flag processValue hands down into a plain object held
\* under key
ObjectFlag(maskSensitive, maskableFields, key) ==
  maskSensitive /\ Includes(maskableFields, key)

\* this._maskableFields || [], `this` being the entity at address a: the
\* names its own property _maskableFields holds
ItsNames(names) == [i \in 1..Len(names.items) |-> names.items[i].s]
MaskableOf(h, a) ==
  ItsNames(h[a].vals[IndexOf(h[a].keys, "_maskableFields", 1)])

\* SmartEntity.toJSON and SmartEntity.processValue, `this` being the entity
\* at address a of heap h
RECURSIVE toJSON(_, _, _, _)
RECURSIVE processValue(_, _, _, _, _, _)

\* a nested entity serialized with masking off
NestedEntityUnmasked(h, value, pretty, maskSensitive) ==
  Coalesce(safeJsonParse(toJSON(h, value.a, pretty, FALSE)), Null)

\* processValue on a nested entity: its own toJSON, parsed back
NestedEntity(h, value, pretty, maskSensitive) ==
  Coalesce(safeJsonParse(toJSON(h, value.a, pretty, maskSensitive)), Null)

\* the callback of value.map with the mask left to the recursion: every
\* element is processed by processValue
MappedItemDeep(h, a, item, key, pretty, maskSensitive) ==
  processValue(h, a, item, key, pretty, maskSensitive)

\* the callback of value.map in processValue: what an element of an array
\* becomes
MappedItem(h, a, item, key, pretty, maskSensitive) ==
  IF maskSensitive /\ Includes(MaskableOf(h, a), key)
  THEN Mask(h, item)
  ELSE processValue(h, a, item, key, pretty, maskSensitive)

toJSON(h, a, pretty, maskSensitive) ==
  LET this == h[a]
      own == SelectSeq([i \in 1..Len(this.keys) |-> i],
                       LAMBDA i : ~StartsWithUnderscore(this.keys[i]))
      jsonObject ==
        Obj([j \in 1..Len(own) |-> this.keys[own[j]]],
            [j \in 1..Len(own) |->
               processValue(h, a, this.vals[own[j]], this.keys[own[j]], pretty,
                            maskSensitive)])
  IN safeJsonStringify(jsonObject, pretty)

processValue(h, a, value, key, pretty, maskSensitive) ==
  IF IsEntity(h, value)
  THEN NestedEntity(h, value, pretty, maskSensitive)
  ELSE IF IsArray(h, value)
  THEN Arr([i \in 1..Len(h[value.a].items) |->
              MappedItem(h, a, h[value.a].items[i], key, pretty,
                         maskSensitive)])
  ELSE IF IsObject(h, value)
  THEN Obj(h[value.a].keys,
           [i \in 1..Len(h[value.a].keys) |->
              processValue(h, a, h[value.a].vals[i], h[value.a].keys[i], pretty,
                           ObjectFlag(maskSensitive, MaskableOf(h, a), key))])
  ELSE IF maskSensitive /\ Includes(MaskableOf(h, a), key)
  THEN Mask(h, value)
  ELSE value

----------------------------------------------------------------------------
(* Circular value graphs.  The calling code can make a field, a property   *)
(* or an element refer to the cell that holds it or to the entity itself.  *)
(* processValue keeps no record of the values it has visited, so on such a *)
(* graph its recursion never returns and the engine ends it with a         *)
(* RangeError (Maximum call stack size exceeded).                          *)

\* one call of processValue: the receiver, the cell the value refers to,
\* the key and the flag
Visit(this, v, key, maskSensitive) ==
  [this |-> this, v |-> v, key |-> key, maskSensitive |-> maskSensitive]

\* the calls of processValue that toJSON makes on the entity at address a:
\* one per public field, those on a primitive left out
FieldVisits(h, a, maskSensitive) ==
  {Visit(a, h[a].vals[i].a, h[a].keys[i], maskSensitive) :
     i \in {j \in 1..Len(h[a].keys) :
              ~StartsWithUnderscore(h[a].keys[j]) /\ h[a].vals[j].t = "ref"}}

\* the calls that the call n makes in turn: a nested entity is handed to
\* its own toJSON, the elements of a masked array are not visited, the
\* values of a plain object are visited under their own keys
Visits(h, n) ==
  IF h[n.v].k = "entity" THEN FieldVisits(h, n.v, n.maskSensitive)
  ELSE IF h[n.v].k = "array"
  THEN IF n.maskSensitive /\ Includes(MaskableOf(h, n.this), n.key) THEN {}
       ELSE {Visit(n.this, h[n.v].items[i].a, n.key, n.maskSensitive) :
               i \in {j \in 1..Len(h[n.v].items) : h[n.v].items[j].t = "ref"}}
  ELSE {Visit(n.this, h[n.v].vals[i].a, h[n.v].keys[i],
              ObjectFlag(n.maskSensitive, MaskableOf(h, n.this), n.key)) :
          i \in {j \in 1..Len(h[n.v].keys) : h[n.v].vals[j].t = "ref"}}

\* whether the call n, made under the calls of path, leads to a call that
\* is already under way
RECURSIVE Recurs(_, _, _)
Recurs(h, n, path) ==
  \/ n \in path
  \/ \E m \in Visits(h, n) : Recurs(h, m, path \cup {n})

\* whether toJSON on the entity at address a never returns
Overflows(h, a, maskSensitive) ==
  \E n \in FieldVisits(h, a, maskSensitive) :
    Recurs(h, n, {Visit(0, a, "", maskSensitive)})

----------------
(* The validating deserializer and the facade *)

\* the outcome of a call: whether it threw, the error's message prefix and
\* the validator's errors, the heap after and the instance returned
Threw(h, error, errors) ==
  [threw |-> TRUE, error |-> error, errors |-> errors, h |-> h, a |-> 0]
Returned(h, a) ==
  [threw |-> FALSE, error |-> "", errors |-> <<>>, h |-> h, a |-> a]

\* fromJSON that constructs its instance first and validates afterwards
fromParsedEager(h, data, errors, instance) ==
  IF ~Truthy(data) THEN Threw(h, "Invalid JSON data", <<>>)
  ELSE IF errors # <<>> THEN Threw(instance.h, "Validation failed", errors)
  ELSE Returned(Assign(instance.h, instance.a, data), instance.a)

\* fromJSON once the text is parsed, the schema compiled and run on the
\* data, and for the instance `new this()` would give: line 181 throws on a
\* falsy parse, line 187 on a validation error, line 193 assigns
fromParsed(h, data, errors, instance) ==
  IF ~Truthy(data) THEN Threw(h, "Invalid JSON data", <<>>)
  ELSE IF errors # <<>> THEN Threw(h, "Validation failed", errors)
  ELSE Returned(Assign(instance.h, instance.a, data), instance.a)

\* fromJSON that makes its instance with every field null, not with the
\* default constructor
fromDataBare(h, class, data) ==
  fromParsed(h, data, Errors(getJsonSchema(class), data, ""),
             New(h, class, [i \in 1..Len(class.params) |-> Null]))

\* fromJSON on the parsed data
fromData(h, class, data) ==
  fromParsed(h, data, Errors(getJsonSchema(class), data, ""), New(h, class, <<>>))

\* SmartEntity.fromJSON, called on a class
fromJSON(h, class, json) == fromData(h, class, safeJsonParse(json))

\* a copy that shares the receiver's field values: Object.assign(new C(), this)
cloneShallow(h, a) ==
  LET instance == New(h, Class(h[a].cls), <<>>)
  IN Returned([instance.h EXCEPT ![instance.a] = h[a]], instance.a)

\* SmartEntity.clone
clone(h, a) == fromJSON(h, Class(h[a].cls), toJSON(h, a, FALSE, FALSE))

\* a validate that checks nothing
validateNothing(h, a) == Returned(h, 0)

\* SmartEntity.validate: clone, and drop the result
validate(h, a) == [clone(h, a) EXCEPT !.a = 0]

----------------------------------------------------------------------------
(* The calling code: it constructs an entity, then calls the operations on *)
(* it and on the instances they return, and changes public fields.         *)

\* the entities the calling code constructs first
Samples ==
  << [class |-> RootModel,
      args |-> <<Num(1), Str("test"), Bool(TRUE),
                 [class |-> SubModel,
                  args |-> <<Arr(<<Str("reading"), Str("video game")>>)>>]>>],
     [class |-> RootModel, args |-> <<>>],
     [class |-> RootModel, args |-> <<Num(-12), Str(""), Bool(FALSE)>>],
     [class |-> SubModel, args |-> <<Arr(<<Str("reading"), Str("video game")>>)>>],
     [class |-> SubModel, args |-> <<>>],
     [class |-> NestedModel, args |-> <<Str("test"), Num(123)>>],
     [class |-> NestedModel, args |-> <<>>],
     [class |-> TestModel,
      args |-> <<[class |-> NestedModel, args |-> <<Str("test"), Num(123)>>]>>],
     [class |-> TestModel,
      args |-> <<[class |-> NestedModel, args |-> <<Null, Num(0)>>]>>],
     [class |-> TestModel, args |-> <<>>],
     [class |-> PlainModel,
      args |-> <<Str("s3cret"),
                 Obj(<<"field1", "deep">>,
                     <<Str("x"), Obj(<<"field1", "info">>, <<Num(7), Str("y")>>)>>),
                 Obj(<<"field1", "other", "tags">>,
                     <<Str("ab"), Num(5), Bool(TRUE)>>),
                 Arr(<<Str("tag1"), Num(22), Null>>),
                 Arr(<<Obj(<<"field1">>, <<Str("z")>>), Str("w")>>)>>],
     [class |-> PlainModel,
      args |-> <<Num(12345), Undef, Undef,
                 Arr(<<Arr(<<Str("a"), Str("b")>>),
                       Obj(<<"field1">>, <<Str("q")>>)>>)>>],
     [class |-> PlainModel,
      args |-> <<Bool(FALSE),
                 Obj(<<"inner">>,
                     <<[class |-> NestedModel, args |-> <<Str("test"), Num(1)>>]>>),
                 Undef, Undef,
                 Arr(<<[class |-> NestedModel, args |-> <<Str("pw"), Num(2)>>]>>)>>] >>

\* a sample built on the heap: what a nested `new`, array literal or
\* object literal evaluates to is built before the entity that holds it
RECURSIVE Build(_, _)
\* what a sample holds: the arguments of a `new` (a parameter left out or
\* passed undefined takes its default), the elements of a literal
Parts(x) ==
  IF "class" \in DOMAIN x
  THEN [i \in 1..Len(x.class.params) |->
          IF i > Len(x.args) THEN x.class.defaults[i]
          ELSE IF "class" \in DOMAIN x.args[i] THEN x.args[i]
          ELSE IF x.args[i].t = "undefined" THEN x.class.defaults[i]
          ELSE x.args[i]]
  ELSE IF x.t = "array" THEN x.items
  ELSE IF x.t = "object" THEN x.vals
  ELSE <<>>

\* a reference moved by d cells
Shift(v, d) == IF v.t = "ref" THEN Ref(v.a + d) ELSE v

\* a cell whose references are moved by d cells
ShiftCell(c, d) ==
  IF c.k = "array"
  THEN [c EXCEPT !.items = [i \in 1..Len(@) |-> Shift(@[i], d)]]
  ELSE [c EXCEPT !.vals = [i \in 1..Len(@) |-> Shift(@[i], d)]]

Build(h, x) ==
  LET parts == Parts(x)
      built == [i \in 1..Len(parts) |-> Build(<<>>, parts[i])]
      RECURSIVE Before(_)
      Before(n) == IF n = 0 THEN Len(h) ELSE Before(n - 1) + Len(built[n].h)
      cells == Join([i \in 1..Len(parts) |->
                       [n \in 1..Len(built[i].h) |->
                          ShiftCell(built[i].h[n], Before(i - 1))]],
                    <<>>)
      vs == [i \in 1..Len(parts) |-> Shift(built[i].v, Before(i - 1))]
      at == Len(h) + Len(cells) + 1
  IN IF "class" \in DOMAIN x
     THEN [h |-> h \o cells
                  \o <<EntityCell(x.class.name,
                         x.class.params
                           \o <<"_maskableFields", "_requiredFields", "_schemaHints">>,
                         vs \o <<Names(x.class.maskableFields),
                                 Names(x.class.requiredFields),
                                 x.class.schemaHints>>)>>,
           v |-> Ref(at)]
     ELSE IF x.t = "array"
     THEN [h |-> h \o cells \o <<ArrayCell(vs)>>, v |-> Ref(at)]
     ELSE IF x.t = "object"
     THEN [h |-> h \o cells \o <<ObjectCell(x.keys, vs)>>, v |-> Ref(at)]
     ELSE [h |-> h, v |-> x]

\* the texts the calling code hands to fromJSON
Texts ==
  << <<Lit(Null)>>,
     <<Lit(Num(0))>>,
     <<Lit(Bool(FALSE))>>,
     <<Lit(Str(""))>>,
     <<>>,
     <<Tok("{"), Lit(Str("id")), Tok(":"), Lit(Num(0))>>,
     <<Tok("["), Lit(Num(1)), Tok(","), Tok("]")>>,
     <<Lit(Num(5))>>,
     <<Tok("["), Tok("]")>>,
     <<Tok("{"), Lit(Str("id")), Tok(":"), Tok("sp"), Lit(Num(0)), Tok("}")>>,
     <<Tok("{"), Lit(Str("id")), Tok(":"), Lit(Num(0)), Tok(","),
       Lit(Str("description")), Tok(":"), Lit(Str("test")), Tok(","),
       Lit(Str("isActive")), Tok(":"), Lit(Bool(TRUE)), Tok(","),
       Lit(Str("sub")), Tok(":"), Tok("{"), Lit(Str("hobbies")), Tok(":"),
       Tok("["), Lit(Str("reading")), Tok(","), Lit(Str("video game")),
       Tok("]"), Tok("}"), Tok("}")>>,
     <<Tok("{"), Lit(Str("hobbies")), Tok(":"), Tok("["), Lit(Str("a")),
       Tok("]"), Tok("}")>>,
     <<Tok("{"), Lit(Str("field1")), Tok(":"), Lit(Null), Tok(","),
       Lit(Str("field2")), Tok(":"), Lit(Num(1)), Tok("}")>>,
     <<Tok("{"), Lit(Str("extra")), Tok(":"), Lit(Num(1)), Tok("}")>>,
     <<Tok("{"), Lit(Str("nested")), Tok(":"), Tok("{"), Lit(Str("field2")),
       Tok(":"), Lit(Num(3)), Tok("}"), Tok("}")>>,
     <<Tok("{"), Lit(Str("meta")), Tok(":"), Tok("{"), Lit(Str("field1")),
       Tok(":"), Lit(Str("x")), Tok("}"), Tok("}")>>,
     <<Tok("{"), Lit(Str("description")), Tok(":"), Lit(Str("d")), Tok(","),
       Lit(Str("sub")), Tok(":"), Tok("{"), Lit(Str("hobbies")), Tok(":"),
       Tok("["), Lit(Str("a")), Tok("]"), Tok("}"), Tok("}")>> >>

\* the addresses a value refers to directly
RefsOf(vs) == {vs[i].a : i \in {j \in 1..Len(vs) : vs[j].t = "ref"}}
CellRefs(cell) == IF cell.k = "array" THEN RefsOf(cell.items) ELSE RefsOf(cell.vals)

\* the cells reachable from address a, a included
RECURSIVE ReachFrom(_, _, _)
ReachFrom(h, frontier, seen) ==
  IF frontier \subseteq seen THEN seen
  ELSE LET new == frontier \ seen
       IN ReachFrom(h, UNION {CellRefs(h[c]) : c \in new}, seen \cup new)

Reach(h, a) == IF a = 0 THEN {} ELSE ReachFrom(h, {a}, {})

\* the public fields the calling code can change in place: the first own
\* string, number or boolean property of an object or entity (0 when it has
\* none)
RECURSIVE FirstPlain(_, _)
FirstPlain(cell, i) ==
  IF i > Len(cell.keys) THEN 0
  ELSE IF ~StartsWithUnderscore(cell.keys[i])
          /\ cell.vals[i].t \in {"string", "number", "boolean"}
       THEN i
  ELSE FirstPlain(cell, i + 1)

Changed(v) ==
  CASE v.t = "string" -> Str(v.s \o "!")
    [] v.t = "number" -> Num(v.n + 1)
    [] v.t = "boolean" -> Bool(~v.b)

CanChange(cell) == IF cell.k = "array" THEN TRUE ELSE FirstPlain(cell, 1) # 0

\* a cell after the calling code's change: an array gets an element pushed,
\* an object or entity gets its first plain field reassigned
ChangeCell(cell) ==
  IF cell.k = "array" THEN [cell EXCEPT !.items = Append(@, Str("new"))]
  ELSE [cell EXCEPT !.vals[FirstPlain(cell, 1)] = Changed(@)]

NoCall ==
  [op |-> "new", this |-> 0, pretty |-> FALSE, maskSensitive |-> FALSE,
   json |-> <<>>, text |-> <<>>, schema |-> Undef, threw |-> FALSE,
   error |-> "", errors |-> <<>>, a |-> 0]

\* the state after the entity b was constructed
Constructed(b) ==
  /\ heap = b.h
  /\ orig = b.v.a
  /\ copy = 0
  /\ source = 0
  /\ last = NoCall
  /\ steps = 0

Init == \E s \in DOMAIN Samples : Constructed(Build(<<>>, Samples[s]))

\* the instances the calling code holds
Held == {orig} \cup (IF copy = 0 THEN {} ELSE {copy})

\* the receiver's fields after a serializer that writes the masks into them
MaskedInPlace(h, a) ==
  LET maskableFields == Class(h[a].cls).maskableFields
  IN [h EXCEPT ![a].vals =
        [i \in 1..Len(@) |->
           IF Includes(maskableFields, h[a].keys[i]) /\ IsPrimitive(@[i])
           THEN Mask(h, @[i]) ELSE @[i]]]

\* toJSON that masks the receiver's own fields, not a transient tree
ToJSONInPlace(this, pretty, maskSensitive) ==
  /\ steps < MaxSteps
  /\ last' = [NoCall EXCEPT !.op = "toJSON", !.this = this, !.pretty = pretty,
                            !.maskSensitive = maskSensitive,
                            !.text = toJSON(heap, this, pretty, maskSensitive)]
  /\ heap' = IF maskSensitive THEN MaskedInPlace(heap, this) ELSE heap
  /\ steps' = steps + 1
  /\ UNCHANGED <<orig, copy, source>>

\* this.toJSON(pretty, maskSensitive)
ToJSON(this, pretty, maskSensitive) ==
  /\ steps < MaxSteps
  /\ last' = IF Overflows(heap, this, maskSensitive)
             THEN [NoCall EXCEPT !.op = "toJSON", !.this = this,
                                 !.pretty = pretty,
                                 !.maskSensitive = maskSensitive,
                                 !.threw = TRUE, !.error = "RangeError"]
             ELSE [NoCall EXCEPT !.op = "toJSON", !.this = this,
                                 !.pretty = pretty,
                                 !.maskSensitive = maskSensitive,
                                 !.text = toJSON(heap, this, pretty,
                                                 maskSensitive)]
  /\ steps' = steps + 1
  /\ UNCHANGED <<heap, orig, copy, source>>

\* the state after this.clone() gave r
Cloned(this, r) ==
  /\ heap' = r.h
  /\ copy' = IF r.threw THEN copy ELSE r.a
  /\ source' = IF r.threw THEN source ELSE this
  /\ last' = [NoCall EXCEPT !.op = "clone", !.this = this,
                            !.threw = r.threw, !.error = r.error,
                            !.errors = r.errors, !.a = r.a]

\* this.clone()
Clone(this) ==
  /\ steps < MaxSteps
  /\ Cloned(this, clone(heap, this))
  /\ steps' = steps + 1
  /\ UNCHANGED orig

\* the state after this.validate() gave r
Validated(this, r) ==
  /\ heap' = r.h
  /\ last' = [NoCall EXCEPT !.op = "validate", !.this = this,
                            !.threw = r.threw, !.error = r.error,
                            !.errors = r.errors]

\* this.validate()
Validate(this) ==
  /\ steps < MaxSteps
  /\ Validated(this, validate(heap, this))
  /\ steps' = steps + 1
  /\ UNCHANGED <<orig, copy, source>>

\* C.getJsonSchema(), C being the class of an instance held
GetJsonSchema(this) ==
  /\ steps < MaxSteps
  /\ last' = [NoCall EXCEPT !.op = "getJsonSchema", !.this = this,
                            !.schema = getJsonSchema(Class(heap[this].cls))]
  /\ steps' = steps + 1
  /\ UNCHANGED <<heap, orig, copy, source>>

\* the state after C.fromJSON(json) gave r
Parsed(json, r) ==
  /\ heap' = r.h
  /\ copy' = IF r.threw THEN copy ELSE r.a
  /\ source' = IF r.threw THEN source ELSE 0
  /\ last' = [NoCall EXCEPT !.op = "fromJSON", !.this = orig, !.json = json,
                            !.threw = r.threw, !.error = r.error,
                            !.errors = r.errors, !.a = r.a]

\* C.fromJSON(json), C being the class of the entity constructed first
FromJSON(json) ==
  /\ steps < MaxSteps
  /\ Parsed(json, fromJSON(heap, Class(heap[orig].cls), json))
  /\ steps' = steps + 1
  /\ UNCHANGED orig

\* the calling code changes the cell at address c in place
Change(c) ==
  /\ steps < MaxSteps
  /\ CanChange(heap[c])
  /\ heap' = [heap EXCEPT ![c] = ChangeCell(@)]
  /\ last' = [NoCall EXCEPT !.op = "change", !.this = c]
  /\ steps' = steps + 1
  /\ UNCHANGED <<orig, copy, source>>

Next ==
  \/ \E this \in Held, pretty \in BOOLEAN, maskSensitive \in BOOLEAN :
       ToJSON(this, pretty, maskSensitive)
  \/ \E this \in Held : Clone(this)
  \/ \E this \in Held : Validate(this)
  \/ \E this \in Held : GetJsonSchema(this)
  \/ \E i \in DOMAIN Texts : FromJSON(Texts[i])
  \/ \E c \in UNION {Reach(heap, e) : e \in Held} : Change(c)

Spec == Init /\ [][Next]_vars

----------------------------------------------------------------------------
(* What the claims read *)

\* the parsed output of the last toJSON call
Out == JsonParse(last.text)

\* the public fields of the entity at address a: the indices of its own
\* properties that toJSON serializes
Fields(h, a) ==
  {i \in 1..Len(h[a].keys) : ~StartsWithUnderscore(h[a].keys[i])}

\* a string of n asterisks, as a value
Stars(n) == Str(Repeat("*", n))

\* the JSON image of a heap value with nothing masked: what JSON.parse gives
\* back for it (an undefined property is left out, an undefined element is
\* null, an entity shows its public fields)
RECURSIVE Plain(_, _)
Plain(h, v) ==
  IF v.t # "ref" THEN v
  ELSE IF h[v.a].k = "array"
  THEN Arr([i \in 1..Len(h[v.a].items) |->
              IF h[v.a].items[i].t = "undefined" THEN Null
              ELSE Plain(h, h[v.a].items[i])])
  ELSE LET cell == h[v.a]
           ix == SelectSeq([i \in 1..Len(cell.keys) |-> i],
                   LAMBDA i : /\ cell.vals[i].t # "undefined"
                              /\ ~(cell.k = "entity"
                                   /\ StartsWithUnderscore(cell.keys[i])))
       IN Obj([j \in 1..Len(ix) |-> cell.keys[ix[j]]],
              [j \in 1..Len(ix) |-> Plain(h, cell.vals[ix[j]])])

----------------------------------------------------------------------------
(* The claims *)

\* C1: round trip.  When clone (fromJSON of the receiver's toJSON) returns,
\* the receiver conforming to its derived schema, the instance it returns
\* serializes to the same text as the receiver, compact and pretty.
C1_RoundTrip ==
  (last.op = "clone" /\ ~last.threw) =>
    \A pretty \in BOOLEAN :
      toJSON(heap, last.a, pretty, FALSE) = toJSON(heap, last.this, pretty, FALSE)

\* a clone was made of an entity that holds a nested entity
C1_Witness ==
  /\ last.op = "clone" /\ ~last.threw
  /\ \E i \in Fields(heap, last.this) : IsEntity(heap, heap[last.this].vals[i])

\* C2: clone returns a deep copy.  The clone is another instance than its
\* receiver and no cell reachable from it is reachable from the receiver;
\* a later change to a cell of the one leaves every cell and the text of
\* the other as they were.
C2_Independent ==
  source # 0 =>
    /\ copy # source
    /\ Reach(heap, copy) \cap Reach(heap, source) = {}

C2_Frame ==
  (last'.op = "change" /\ source # 0) =>
    /\ last'.this \in Reach(heap, copy) =>
         /\ \A c \in Reach(heap, source) : heap'[c] = heap[c]
         /\ toJSON(heap', source, FALSE, FALSE) = toJSON(heap, source, FALSE, FALSE)
    /\ last'.this \in Reach(heap, source) =>
         /\ \A c \in Reach(heap, copy) : heap'[c] = heap[c]
         /\ toJSON(heap', copy, FALSE, FALSE) = toJSON(heap, copy, FALSE, FALSE)

C2_DeepCopy == [] C2_Independent /\ [][C2_Frame]_vars

\* a nested array or object of a clone was changed after the clone was made
C2_Witness ==
  /\ last.op = "change" /\ source # 0
  /\ last.this \in Reach(heap, copy) \ {copy}
  /\ toJSON(heap, copy, FALSE, FALSE) # toJSON(heap, source, FALSE, FALSE)

\* C3: cloning reconstructs every nested entity as a new entity instance:
\* a field of the receiver that holds an entity holds, in the clone, an
\* instance of the same entity class.
C3_NestedReconstructed ==
  (last.op = "clone" /\ ~last.threw) =>
    \A i \in Fields(heap, last.this) :
      LET v == heap[last.this].vals[i]
          w == heap[last.a].vals[IndexOf(heap[last.a].keys, heap[last.this].keys[i], 1)]
      IN IsEntity(heap, v) =>
           /\ IsEntity(heap, w)
           /\ w.a # v.a
           /\ heap[w.a].cls = heap[v.a].cls

\* C4: no operation mutates its receiver.  A toJSON (masked or not, pretty
\* or not), clone, validate, getJsonSchema or fromJSON call leaves every
\* cell that existed before it as it was, so the unmasked toJSON of each
\* instance held returns the same text after the call as before it.
C4_Frame ==
  (last'.op \in {"toJSON", "clone", "validate", "getJsonSchema", "fromJSON"}) =>
    /\ \A c \in DOMAIN heap : c \in DOMAIN heap' /\ heap'[c] = heap[c]
    /\ \A e \in Held :
         toJSON(heap', e, FALSE, FALSE) = toJSON(heap, e, FALSE, FALSE)

C4_NoMutation == [][C4_Frame]_vars

\* a masked toJSON that did mask something was followed by a second call
C4_Witness ==
  /\ steps >= 2
  /\ last.op = "toJSON" /\ last.maskSensitive
  /\ last.text # toJSON(heap, last.this, last.pretty, FALSE)

\* C5 as stated: with maskSensitive on, every maskable field whose value is
\* not null comes out as a string of asterisks as long as String(value).
C5_Original ==
  (last.op = "toJSON" /\ last.maskSensitive) =>
    \A i \in Fields(heap, last.this) :
      LET key == heap[last.this].keys[i]
          v == heap[last.this].vals[i]
      IN (Includes(Class(heap[last.this].cls).maskableFields, key) /\ v.t # "null")
           => Get(Out, key) = Stars(StringLength(heap, v))

\* C5, amended: with maskSensitive on, every maskable field whose value is
\* not null and is not an array, a plain object or a nested entity comes
\* out as a string of asterisks as long as String(value).
C5_MaskLength ==
  (last.op = "toJSON" /\ last.maskSensitive) =>
    \A i \in Fields(heap, last.this) :
      LET key == heap[last.this].keys[i]
          v == heap[last.this].vals[i]
      IN (Includes(Class(heap[last.this].cls).maskableFields, key)
          /\ v.t \in {"string", "number", "boolean", "undefined"})
           => /\ Get(Out, key).t = "string"
              /\ Get(Out, key).s = Repeat("*", Len(Get(Out, key).s))
              /\ Len(Get(Out, key).s) = StringLength(heap, v)

\* a maskable field that holds the number 12345 was masked
C5_Witness ==
  /\ last.op = "toJSON" /\ last.maskSensitive
  /\ \E i \in Fields(heap, last.this) :
       /\ Includes(Class(heap[last.this].cls).maskableFields, heap[last.this].keys[i])
       /\ heap[last.this].vals[i] = Num(12345)
       /\ Get(Out, heap[last.this].keys[i]) = Str("*****")

\* two parsed outputs of the same shape: the same keys in every object, the
\* same length of every array, a leaf where the other has a leaf
RECURSIVE SameShape(_, _)
SameShape(x, y) ==
  IF x.t = "object"
  THEN /\ y.t = "object"
       /\ x.keys = y.keys
       /\ \A i \in 1..Len(x.keys) : SameShape(x.vals[i], y.vals[i])
  ELSE IF x.t = "array"
  THEN /\ y.t = "array"
       /\ Len(x.items) = Len(y.items)
       /\ \A i \in 1..Len(x.items) : SameShape(x.items[i], y.items[i])
  ELSE y.t \notin {"object", "array"}

\* C6: the masked output has the shape of the normal output: toJSON(p, true)
\* and toJSON(p, false) parse to trees with the same keys at every object
\* level and the same array lengths.
C6_SameShape ==
  (last.op = "toJSON" /\ last.maskSensitive) =>
    SameShape(Out, JsonParse(toJSON(heap, last.this, last.pretty, FALSE)))

\* C7: masking propagates into nested entities.  With maskSensitive on, a
\* field that holds a nested entity comes out as an object in which each
\* field of the nested entity is masked when the nested entity's class
\* declares it maskable (a string of asterisks for a plain value, one per
\* element for an array) and is passed through unchanged otherwise,
\* whether or not the container declares the field maskable.
C7_NestedMasking ==
  (last.op = "toJSON" /\ last.maskSensitive) =>
    \A i \in Fields(heap, last.this) :
      LET v == heap[last.this].vals[i]
          out == Get(Out, heap[last.this].keys[i])
      IN IsEntity(heap, v) =>
           /\ out.t = "object"
           /\ \A j \in Fields(heap, v.a) :
                LET k == heap[v.a].keys[j]
                    w == heap[v.a].vals[j]
                    masked == Includes(Class(heap[v.a].cls).maskableFields, k)
                IN /\ (IsPrimitive(w) /\ masked) =>
                        Get(out, k) = Stars(StringLength(heap, w))
                   /\ (IsArray(heap, w) /\ masked) =>
                        Get(out, k) =
                          Arr([n \in 1..Len(heap[w.a].items) |->
                                 Stars(StringLength(heap, heap[w.a].items[n]))])
                   /\ (~masked /\ w.t # "undefined") => Get(out, k) = Plain(heap, w)

\* a container was masked that holds, in a field it does not declare
\* maskable, a nested entity with a maskable field
C7_Witness ==
  /\ last.op = "toJSON" /\ last.maskSensitive
  /\ \E i \in Fields(heap, last.this) :
       LET v == heap[last.this].vals[i]
           key == heap[last.this].keys[i]
       IN /\ IsEntity(heap, v)
          /\ ~Includes(Class(heap[last.this].cls).maskableFields, key)
          /\ Get(Out, key) # Plain(heap, v)

\* C8: masking containment.  With maskSensitive on, a plain object held in a
\* field the owner does not declare maskable comes out unmodified at every
\* depth, whatever its sub-field names.
C8_Containment ==
  (last.op = "toJSON" /\ last.maskSensitive) =>
    \A i \in Fields(heap, last.this) :
      LET key == heap[last.this].keys[i]
          v == heap[last.this].vals[i]
      IN (v.t = "ref" /\ heap[v.a].k = "object"
          /\ ~Includes(Class(heap[last.this].cls).maskableFields, key))
           => Get(Out, key) = Plain(heap, v)

\* a non-maskable field was serialized, masking on, that holds a plain
\* object with a sub-field named like a maskable field of the owner
C8_Witness ==
  /\ last.op = "toJSON" /\ last.maskSensitive
  /\ \E i \in Fields(heap, last.this) :
       LET key == heap[last.this].keys[i]
           v == heap[last.this].vals[i]
           maskableFields == Class(heap[last.this].cls).maskableFields
       IN /\ v.t = "ref" /\ heap[v.a].k = "object"
          /\ ~Includes(maskableFields, key)
          /\ \E n \in 1..Len(heap[v.a].keys) :
               /\ Includes(maskableFields, heap[v.a].keys[n])
               /\ heap[v.a].vals[n].t = "string"

\* C9: schema fidelity.  The schema getJsonSchema returns has type
\* "object", additionalProperties false and a required list equal to the
\* class's declared required fields, whatever its hints.
C9_SchemaFidelity ==
  last.op = "getJsonSchema" =>
    /\ Get(last.schema, "type") = Str("object")
    /\ Get(last.schema, "additionalProperties") = Bool(FALSE)
    /\ Get(last.schema, "required")
         = Names(Class(heap[last.this].cls).requiredFields)

\* the schema was derived of a class with a required field and a hint that
\* carries a nested schema
C9_Witness ==
  /\ last.op = "getJsonSchema"
  /\ Class(heap[last.this].cls).requiredFields # <<>>
  /\ \E i \in 1..Len(Class(heap[last.this].cls).schemaHints.vals) :
       HasKey(Class(heap[last.this].cls).schemaHints.vals[i], "schema")

\* C10: fromJSON throws 'Invalid JSON data' exactly when the text is not
\* valid JSON; every valid text goes on to schema validation.
C10_ParseErrorIffInvalid ==
  last.op = "fromJSON" =>
    ((last.threw /\ last.error = "Invalid JSON data") <=> ~ValidJson(last.json))

----------------------------------------------------------------------------
(* Errors of the deserializer *)

\* the class fromJSON is called on, its derived schema and the parsed text
\* of the last fromJSON call
LastClass == Class(heap[orig].cls)
LastData == safeJsonParse(last.json)

\* whether the errors of the last call hold one with this message
Reported(message) ==
  \E i \in 1..Len(last.errors) : last.errors[i].message = message

\* the required name the parsed object of the last call lacks first, and
\* whether it carries a key the schema does not declare
LastMissing == FirstMissing(LastData, Names(LastClass.requiredFields), 1)
LastExtra == FirstAdditional(LastData, LastClass.schemaHints, 1)

\* C11: validation failure aggregation.  When the parsed object lacks a
\* required field and also carries an undeclared field, fromJSON throws one
\* 'Validation failed' error that names both violations.
C11_Aggregation ==
  (/\ last.op = "fromJSON" /\ ValidJson(last.json)
   /\ LastData.t = "object" /\ LastMissing # "" /\ LastExtra # "")
    =>      /\ last.threw /\ last.error = "Validation failed"
            /\ Reported("must have required property '" \o LastMissing \o "'")
            /\ Reported("must NOT have additional properties")

\* C12: fromJSON is all-or-nothing.  A call that throws allocates nothing
\* and returns no instance; a call that returns gives an instance whose
\* parsed data has no error against the derived schema and that holds every
\* property of the parsed data.
C12_Frame ==
  last'.op = "fromJSON" =>
    IF last'.threw
    THEN heap' = heap /\ copy' = copy /\ last'.a = 0
    ELSE /\ ValidJson(last'.json)
         /\ Errors(getJsonSchema(LastClass), JsonParse(last'.json), "") = <<>>
         /\ last'.a \notin DOMAIN heap
         /\ IsEntity(heap', Ref(last'.a))
         /\ \A i \in 1..Len(JsonParse(last'.json).keys) :
              Plain(heap', Get(heap'[last'.a], JsonParse(last'.json).keys[i]))
                = JsonParse(last'.json).vals[i]

C12_AllOrNothing == [][C12_Frame]_vars

\* a fromJSON call threw on a validation error, no instance held but the
\* one constructed first
C12_Witness ==
  /\ last.op = "fromJSON" /\ last.threw /\ last.error = "Validation failed"
  /\ copy = 0 /\ last.a = 0

\* whether the entity at address a lacks, or holds null in, a field its
\* class requires and whose hint does not say nullable
LacksRequired(h, a) ==
  \E i \in 1..Len(Class(h[a].cls).requiredFields) :
    LET k == Class(h[a].cls).requiredFields[i]
    IN /\ Get(h[a], k).t \in {"undefined", "null"}
       /\ Get(Get(Class(h[a].cls).schemaHints, k), "nullable") # Bool(TRUE)

\* whether the field values of the entity at address a conform to the
\* schema derived of its class
Conforms(h, a) ==
  Errors(getJsonSchema(Class(h[a].cls)), Plain(h, Ref(a)), "") = <<>>

\* C13: validate throws exactly when fromJSON(this.toJSON()) throws, with
\* the same error, and returns nothing.  It does not throw for an entity
\* that conforms to its derived schema, and throws 'Validation failed' for
\* one whose required non-nullable field is null or absent.
C13_Frame ==
  last'.op = "validate" =>
    /\ last'.threw = fromJSON(heap, Class(heap[last'.this].cls),
                              toJSON(heap, last'.this, FALSE, FALSE)).threw
    /\ last'.error = fromJSON(heap, Class(heap[last'.this].cls),
                              toJSON(heap, last'.this, FALSE, FALSE)).error
    /\ last'.errors = fromJSON(heap, Class(heap[last'.this].cls),
                               toJSON(heap, last'.this, FALSE, FALSE)).errors
    /\ last'.a = 0 /\ copy' = copy
    /\ Conforms(heap, last'.this) => ~last'.threw
    /\ LacksRequired(heap, last'.this) =>
         last'.threw /\ last'.error = "Validation failed"

C13_Validate == [][C13_Frame]_vars

\* validate threw on an entity constructed with its defaults, whose
\* required description is null
C13_Witness ==
  /\ last.op = "validate" /\ last.threw /\ last.error = "Validation failed"
  /\ heap[last.this].cls = "RootModel"
  /\ Get(heap[last.this], "description") = Null

\* the required names of the class that the parsed object of the last
\* fromJSON call lacks
LastLacking ==
  {LastClass.requiredFields[i] : i \in
     {j \in 1..Len(LastClass.requiredFields) :
        ~HasKey(LastData, LastClass.requiredFields[j])}}

\* C14: for a JSON object text that lacks a required field of the class,
\* fromJSON throws 'Validation failed', the error reports a required-field
\* violation, and no instance is returned.
C14_RequiredReported ==
  (/\ last.op = "fromJSON" /\ ValidJson(last.json)
   /\ LastData.t = "object" /\ LastLacking # {})
    => /\ last.threw /\ last.error = "Validation failed"
       /\ \E k \in LastLacking :
            Reported("must have required property '" \o k \o "'")
       /\ last.a = 0

\* fromJSON was called on the text {"id": 0} for a class that requires
\* another field
C14_Witness ==
  /\ last.op = "fromJSON" /\ ValidJson(last.json)
  /\ LastData = Obj(<<"id">>, <<Num(0)>>)
  /\ LastLacking # {}
  /\ last.threw

------------------------------------------------------------

----------------------------------------------------------------------------
(* The serializer on circular value graphs *)

\* the own property of an object or entity that the calling code makes
\* circular: the first public one that holds a reference or undefined, 0
\* when there is none
RECURSIVE FirstLink(_, _)
FirstLink(cell, i) ==
  IF i > Len(cell.keys) THEN 0
  ELSE IF ~StartsWithUnderscore(cell.keys[i])
          /\ cell.vals[i].t \in {"ref", "undefined"}
       THEN i
  ELSE FirstLink(cell, i + 1)

\* a cell after the calling code made it refer to the cell at address d: an
\* array gets the reference pushed, an object or entity gets it assigned to
\* the property FirstLink names, to a new property "self" when there is none
LinkCell(cell, d) ==
  IF cell.k = "array" THEN [cell EXCEPT !.items = Append(@, Ref(d))]
  ELSE IF FirstLink(cell, 1) = 0
  THEN [cell EXCEPT !.keys = Append(@, "self"), !.vals = Append(@, Ref(d))]
  ELSE [cell EXCEPT !.vals[FirstLink(cell, 1)] = Ref(d)]

\* the calling code makes the cell at address c contain the cell at address
\* d: itself or the entity
Link(c, d) ==
  /\ steps < MaxSteps
  /\ heap' = [heap EXCEPT ![c] = LinkCell(@, d)]
  /\ last' = [NoCall EXCEPT !.op = "link", !.this = c, !.a = d]
  /\ steps' = steps + 1
  /\ UNCHANGED <<orig, copy, source>>

NextCircular ==
  \/ \E pretty \in BOOLEAN, maskSensitive \in BOOLEAN :
       ToJSON(orig, pretty, maskSensitive)
  \/ \E c \in Reach(heap, orig) : \E d \in {c, orig} : Link(c, d)

SpecCircular == Init /\ [][NextCircular]_vars

\* C15: toJSON never throws: when the value graph cannot be encoded, as
\* when an object, an array or a nested entity contains itself, the call
\* returns the empty text and no error reaches the caller.
C15_NeverThrows == last.op = "toJSON" => ~last.threw

----------------------------------------------------------------------------
(* Entities with a public field the schema does not declare *)

\* the values the calling code gives the undeclared field
ExtraValues == {Undef, Null, Num(1), Str("x"), Bool(FALSE)}

\* the calling code assigns the public field "extra", for which the class
\* has no hint and which it does not require, on the entity at address this
AddField(this, value) ==
  /\ steps < MaxSteps
  /\ heap' = [heap EXCEPT ![this] = Put(@, "extra", value)]
  /\ last' = [NoCall EXCEPT !.op = "add", !.this = this]
  /\ steps' = steps + 1
  /\ UNCHANGED <<orig, copy, source>>

NextUndeclared ==
  \/ \E this \in Held, value \in ExtraValues : AddField(this, value)
  \/ \E this \in Held : Clone(this)

SpecUndeclared == Init /\ [][NextUndeclared]_vars

\* the public fields of the entity at address a that its class neither
\* requires nor has a hint for
Undeclared(h, a) ==
  {h[a].keys[i] :
     i \in {j \in 1..Len(h[a].keys) :
              /\ ~StartsWithUnderscore(h[a].keys[j])
              /\ ~Includes(Class(h[a].cls).requiredFields, h[a].keys[j])
              /\ ~HasKey(Class(h[a].cls).schemaHints, h[a].keys[j])}}

\* C16: clone() of an entity with a public field that is not required and
\* is not among the properties of the derived schema succeeds, and the
\* clone does not carry that field.
C16_Dropped ==
  (last.op = "clone" /\ Undeclared(heap, last.this) # {})
    => /\ ~last.threw
       /\ \A k \in Undeclared(heap, last.this) : ~HasKey(heap[last.a], k)

----------------------------------------------------------------------------
(* The properties of the derived schema *)

\* the hints of the class whose schema was derived last, and the properties
\* of that schema
LastHints == Class(heap[last.this].cls).schemaHints
LastProperties == Get(last.schema, "properties")

\* C17: in the schema getJsonSchema returns, every property carries a
\* nullable entry equal to the nullable flag of its hint, false when the
\* hint sets none, also for an object hint with a nested schema and for an
\* array hint with items.
C17_Nullable ==
  last.op = "getJsonSchema" =>
    \A i \in 1..Len(LastHints.keys) :
      Get(Get(LastProperties, LastHints.keys[i]), "nullable")
        = Coalesce(Get(LastHints.vals[i], "nullable"), Bool(FALSE))

\* whether a hint is an object hint that carries a nested schema
HasSchema(hint) ==
  /\ Get(hint, "type") = Str("object")
  /\ HasKey(hint, "schema")
  /\ Truthy(Get(hint, "schema"))

\* C18: for an object hint that carries a nested schema, the property that
\* getJsonSchema emits is exactly that schema: nothing is added, removed or
\* overridden from the hint's other entries.
C18_Verbatim ==
  last.op = "getJsonSchema" =>
    \A i \in 1..Len(LastHints.keys) :
      HasSchema(LastHints.vals[i])
        => Get(LastProperties, LastHints.keys[i])
             = Get(LastHints.vals[i], "schema")

\* the schema was derived of a class with a hint that carries a nested
\* schema and a nullable flag of its own
C18_Witness ==
  /\ last.op = "getJsonSchema"
  /\ \E i \in 1..Len(LastHints.keys) :
       /\ HasSchema(LastHints.vals[i])
       /\ Get(LastHints.vals[i], "nullable") = Bool(TRUE)
       /\ ~HasKey(Get(LastHints.vals[i], "schema"), "nullable")

\* whether a hint is an array hint that carries items
HasItems(hint) ==
  /\ Get(hint, "type") = Str("array")
  /\ HasKey(hint, "items")
  /\ Truthy(Get(hint, "items"))

\* the constraints a primitive hint can set
Constraints == {"minLength", "maxLength", "minimum", "maximum", "pattern"}

\* C19: for a primitive hint, the derived property copies type and nullable
\* and has an entry for minLength, maxLength, minimum, maximum or pattern
\* only when the hint sets that constraint: a constraint the hint does not
\* set is left out of the property, not emitted with an empty value.
C19_Omitted ==
  last.op = "getJsonSchema" =>
    \A i \in 1..Len(LastHints.keys) :
      (~HasItems(LastHints.vals[i]) /\ ~HasSchema(LastHints.vals[i]))
        => /\ Get(Get(LastProperties, LastHints.keys[i]), "type")
                = Get(LastHints.vals[i], "type")
           /\ Get(Get(LastProperties, LastHints.keys[i]), "nullable")
                = Coalesce(Get(LastHints.vals[i], "nullable"), Bool(FALSE))
           /\ \A c \in Constraints :
                HasKey(Get(LastProperties, LastHints.keys[i]), c)
                  => HasKey(LastHints.vals[i], c)

----------------------------------------------------------------------------
(* Arrays in the serializer's output *)

\* what JSON.parse gives back for a transient tree once it is encoded as an
\* element of an array
Image(tree) == JsonParse(safeJsonStringify(Arr(<<tree>>), FALSE)).items[1]

\* C20: with maskSensitive on, a maskable field that holds an array comes
\* out as an array of the same length whose every element is a run of
\* asterisks as long as String(element), the element not being entered;
\* with masking off or the field not maskable, every element is processed
\* recursively (with masking off it comes out as it is).
C20_MaskedArray ==
  last.op = "toJSON" =>
    \A i \in Fields(heap, last.this) :
      LET key == heap[last.this].keys[i]
          v == heap[last.this].vals[i]
      IN IsArray(heap, v) =>
           /\ Get(Out, key).t = "array"
           /\ Len(Get(Out, key).items) = Len(heap[v.a].items)
           /\ \A j \in 1..Len(heap[v.a].items) :
                Get(Out, key).items[j] =
                  IF last.maskSensitive
                     /\ Includes(Class(heap[last.this].cls).maskableFields, key)
                  THEN Stars(StringLength(heap, heap[v.a].items[j]))
                  ELSE IF ~last.maskSensitive
                  THEN IF heap[v.a].items[j].t = "undefined" THEN Null
                       ELSE Plain(heap, heap[v.a].items[j])
                  ELSE Image(processValue(heap, last.this, heap[v.a].items[j],
                                          key, last.pretty, TRUE))

\* a maskable array that holds an array and a plain object was masked:
\* both elements came out as asterisks, not as an array and an object
C20_Witness ==
  /\ last.op = "toJSON" /\ last.maskSensitive
  /\ \E i \in Fields(heap, last.this) :
       LET key == heap[last.this].keys[i]
           v == heap[last.this].vals[i]
       IN /\ Includes(Class(heap[last.this].cls).maskableFields, key)
          /\ IsArray(heap, v)
          /\ \E j \in 1..Len(heap[v.a].items) : IsArray(heap, heap[v.a].items[j])
          /\ \E j \in 1..Len(heap[v.a].items) : IsObject(heap, heap[v.a].items[j])
          /\ \A j \in 1..Len(heap[v.a].items) : Get(Out, key).items[j].t = "string"

----------------------------------------------------------------------------
(* The instance fromJSON returns *)

\* C21: fromJSON copies every parsed field onto a new default instance by
\* shallow assignment: a field whose JSON value is an object or an array
\* holds the plain parsed value, with no entity instance anywhere in it,
\* and a field absent from the JSON keeps the value the default constructor
\* gave it.
C21_Shallow ==
  (last.op = "fromJSON" /\ ~last.threw) =>
    \A i \in 1..Len(LastClass.params) :
      LET key == LastClass.params[i]
          w == Get(heap[last.a], key)
      IN IF HasKey(LastData, key)
         THEN IF Get(LastData, key).t \in {"object", "array"}
              THEN /\ w.t = "ref"
                   /\ \A c \in Reach(heap, w.a) : heap[c].k # "entity"
                   /\ Plain(heap, w) = Get(LastData, key)
              ELSE w = Get(LastData, key)
         ELSE Plain(heap, w) = LastClass.defaults[i]

\* fromJSON returned a RootModel of a text that gives "sub", whose hint
\* carries SubModel's schema, and gives neither "id" nor "isActive": "sub"
\* is a plain object, "id" and "isActive" have their defaults
C21_Witness ==
  /\ last.op = "fromJSON" /\ ~last.threw
  /\ LastClass.name = "RootModel"
  /\ ~HasKey(LastData, "id") /\ ~HasKey(LastData, "isActive")
  /\ Get(LastData, "sub").t = "object"
  /\ heap[Get(heap[last.a], "sub").a].k = "object"
  /\ Get(heap[last.a], "id") = Num(0)
  /\ Get(heap[last.a], "isActive") = Bool(TRUE)

----------------------------------------------------------------------------
(* Masking across entities *)

\* C22: clone preserves the masked serialization: when clone returns, the
\* clone's toJSON(false, true) is the receiver's toJSON(false, true), also
\* for a receiver that holds nested entities with maskable fields of their
\* own.
C22_MaskedClone ==
  (last.op = "clone" /\ ~last.threw) =>
    toJSON(heap, last.a, FALSE, TRUE) = toJSON(heap, last.this, FALSE, TRUE)

\* whether the output out, standing where the heap value v stood, shows a
\* maskable string, number or boolean field of an entity in or under v with
\* its own value (a string that is its own mask, as the empty string is,
\* left aside)
RECURSIVE Leaks(_, _, _)
Leaks(h, v, out) ==
  IF v.t # "ref" THEN FALSE
  ELSE IF h[v.a].k = "array"
  THEN /\ out.t = "array"
       /\ \E j \in 1..Len(h[v.a].items) :
            j <= Len(out.items) /\ Leaks(h, h[v.a].items[j], out.items[j])
  ELSE /\ out.t = "object"
       /\ \E j \in 1..Len(h[v.a].keys) :
            LET k == h[v.a].keys[j]
                w == h[v.a].vals[j]
            IN /\ ~(h[v.a].k = "entity" /\ StartsWithUnderscore(k))
               /\ HasKey(out, k)
               /\ IF w.t = "ref" THEN Leaks(h, w, Get(out, k))
                  ELSE /\ h[v.a].k = "entity"
                       /\ Includes(Class(h[v.a].cls).maskableFields, k)
                       /\ w.t \in {"string", "number", "boolean"}
                       /\ w # Stars(StringLength(h, w))
                       /\ Get(out, k) = w

\* C23: with maskSensitive on, no maskable primitive field of an entity
\* reachable from the receiver appears in the output with its own value,
\* wherever the entity sits: in a field, in an array, or in a plain object
\* held by a field the owner does not declare maskable.
C23_NoLeak ==
  (last.op = "toJSON" /\ last.maskSensitive)
    => ~Leaks(heap, Ref(last.this), Out)

\* whether the value v of heap h and the value w of heap g are of one kind
\* and of equal String() length at every level: the same number of
\* elements in corresponding arrays, the same keys (and class) in
\* corresponding objects, strings of equal length for corresponding plain
\* values
RECURSIVE Alike(_, _, _, _)
Alike(h, v, g, w) ==
  IF v.t # "ref"
  THEN w.t # "ref" /\ StringLength(h, v) = StringLength(g, w)
  ELSE /\ w.t = "ref"
       /\ h[v.a].k = g[w.a].k
       /\ IF h[v.a].k = "array"
          THEN /\ Len(h[v.a].items) = Len(g[w.a].items)
               /\ \A j \in 1..Len(h[v.a].items) :
                    Alike(h, h[v.a].items[j], g, g[w.a].items[j])
          ELSE /\ h[v.a].keys = g[w.a].keys
               /\ (h[v.a].k = "entity" => h[v.a].cls = g[w.a].cls)
               /\ \A j \in 1..Len(h[v.a].keys) :
                    (h[v.a].k = "entity" /\ StartsWithUnderscore(h[v.a].keys[j]))
                      \/ Alike(h, h[v.a].vals[j], g, g[w.a].vals[j])

\* whether the entity at address a differs between heap h and heap g only
\* in what its maskable fields hold, the values there being alike
MaskedAlike(h, g, a) ==
  /\ h[a].keys = g[a].keys
  /\ \A i \in Fields(h, a) :
       IF Includes(Class(h[a].cls).maskableFields, h[a].keys[i])
       THEN Alike(h, h[a].vals[i], g, g[a].vals[i])
       ELSE Plain(h, h[a].vals[i]) = Plain(g, g[a].vals[i])

\* C24: the masked output reveals only lengths.  When the calling code
\* changes an entity only in what its maskable fields hold, the values
\* before and after being of equal String() length, toJSON(p, true) gives
\* the same text before and after, whatever the maskable field holds: a
\* plain value, an array, a plain object or a nested entity.
C24_Step ==
  (last'.op = "change" /\ MaskedAlike(heap, heap', orig))
    => \A pretty \in BOOLEAN :
         toJSON(heap', orig, pretty, TRUE) = toJSON(heap, orig, pretty, TRUE)

C24_OnlyLengths == [][C24_Step]_vars

====
